---- MODULE Spec2Model ----
(***************************************************************************)
(* State-machine model of flsim/network.py: the ns-3 runner `Network`,     *)
(* its synchronous API (sendRequest) and its asynchronous polling API      *)
(* (sendAsyncRequest / readAsyncResponse) with the wall-clock deadline.    *)
(*                                                                         *)
(* Python values are modelled as follows.                                  *)
(*   None / Optional[x]   the empty sequence Nil / the one-element <<x>>   *)
(*   list                 a sequence (local index i is position i+1)       *)
(*   dict                 a function; `k in d` is k \in DOMAIN d           *)
(*   float seconds/bytes  integers; the inputs are chosen so that every    *)
(*                        quotient rxBytes / time the code forms is exact  *)
(*   captured stdout      a sequence of lines, each classified by what     *)
(*                        _parse_last_json can tell about it               *)
(***************************************************************************)
EXTENDS Integers, Sequences, FiniteSets, TLC

\* ------------------------------------------------------------------ bounds
MaxClients == 2      \* config.clients.total ranges over 1..MaxClients
MaxTime    == 5      \* latest wall-clock second at which a process is spawned
TickStep   == 5      \* seconds between two observations of the wall clock

\* sim_time values of the configuration (seconds): 4*1 < 10 < 4*3
SimTimes == {1, 3}

\* ------------------------------------------------------- program constants
DeadlineFloor  == 10     \* max(10.0, ...)
DeadlineFactor == 4      \* 4.0 * sim_t
DefaultLocal   == -1     \* e.get('id', -1)
DefaultRxBytes == 0      \* e.get('rxBytes', 0.0)
StartTime      == 0      \* 'startTime': 0.0

VARIABLES
    num_clients,    \* self.num_clients
    sim_time,       \* self._thz_cfg['sim_time']
    proc,           \* self._proc: Nil, or <<[alive]>> the child process
    async_ids,      \* self._async_ids
    async_queue,    \* self._async_queue
    deadline,       \* self._deadline: Nil or <<t>>
    now,            \* time.time()
    call,           \* the last API call: its name, argument and outcome
    oscalls,        \* the subprocess calls that API call issued, in order, a
                    \* Popen.poll() with its answer (None: still running)
    sess            \* history of the polls since the last accepted start

vars == <<num_clients, sim_time, proc, async_ids, async_queue, deadline, now,
          call, oscalls, sess>>

session == <<proc, async_ids, async_queue, deadline>>

Nil == << >>
Some(x) == <<x>>

Max(a, b) == IF a >= b THEN a ELSE b

\* dict.get(key, default)
Get(d, key, default) == IF key \in DOMAIN d THEN d[key] ELSE default

\* --------------------------------------------------------- input alphabets
\* entries of clientResults as the simulator may report them
E1 == [id |-> 0, rxBytes |-> 12, doneAt |-> 2]
E2 == [id |-> 1, rxBytes |-> 12, endTime |-> 3, roundTime |-> 4]
E3 == [id |-> 0, rxBytes |-> 6, doneAt |-> 0, endTime |-> 3]
E4 == [id |-> 1, rxBytes |-> 6, roundTime |-> -1]
E5 == [id |-> 1, rxBytes |-> 6]
E6 == [rxBytes |-> 6, doneAt |-> 2]
E7 == [id |-> 2, doneAt |-> 2]

\* the clientResults arrays of the summaries: nothing, one client, all clients in
\* and out of order, an id reported twice, zero and negative times, no time field,
\* no id field, an id beyond the active set
EntrySeqs ==
    {<< >>, <<E1>>, <<E2>>, <<E1, E2>>, <<E2, E1>>, <<E1, E3>>, <<E3, E4>>,
     <<E5, E6>>, <<E7, E1>>, <<E6>>, <<E1, E2, E7>>}

\* lines of stdout: free text, a {...} line that is not JSON, a JSON object
TextLine == [kind |-> "text"]
BraceLine == [kind |-> "brace"]
JsonLine(obj) == [kind |-> "json", obj |-> obj]
Summary(es) == JsonLine([clientResults |-> es])

StdOuts ==
    {<< >>, <<TextLine>>, <<TextLine, BraceLine>>, <<JsonLine(<< >>), TextLine>>,
     <<Summary(<<E1, E2>>), BraceLine>>, <<Summary(<<E1>>), Summary(<<E2>>)>>}
    \cup {<<TextLine, Summary(es), TextLine>> : es \in EntrySeqs}

ExitCodes == {0, 1}

\* exit status of a child ended by SIGTERM / SIGKILL (never read by the code)
KilledRc == -9

\* explicit id lists: empty, one id, ascending, descending, a repeated id, ids that
\* differ from their local index
IdLists == {<< >>, <<0>>, <<2>>, <<0, 1>>, <<0, 2>>, <<2, 0>>, <<1, 2>>, <<2, 2>>}

\* bitmaps of every length a configuration may have
Bitmaps == UNION {[1..n -> {0, 1}] : n \in 1..MaxClients}

\* what the caller may pass as `array`
Arrays == IdLists \cup Bitmaps

\* ------------------------------------------------------------ pure helpers
\* parse_clients: list(map(int, clients)) on raw ids
parse_clients(clients) == clients

\* [i for i, flag in enumerate(array) if flag], from position p on
RECURSIVE BitmapIdsFrom(_, _)
BitmapIdsFrom(array, p) ==
    IF p > Len(array) THEN << >>
    ELSE (IF array[p] # 0 THEN <<p - 1>> ELSE << >>) \o BitmapIdsFrom(array, p + 1)

\* mutant: the bitmap form is never recognised
IsBitmapNever(array, nc) == FALSE

\* len(array) == self.num_clients and all(x in (0, 1) for x in array)
IsBitmap(array, nc) ==
    Len(array) = nc /\ \A i \in 1..Len(array) : array[i] \in {0, 1}

\* the "bitmap or list of ids" normalisation of both APIs
ActiveIds(array, nc) ==
    IF IsBitmap(array, nc) THEN BitmapIdsFrom(array, 1) ELSE parse_clients(array)

\* mutant: only a line that decodes counts as the summary
LooksLikeObjectIfDecodable(line) == line.kind = "json"

\* a line s with s.startswith('{') and s.endswith('}') after strip()
LooksLikeObject(line) == line.kind \in {"brace", "json"}

\* mutant: the lines are scanned from the first one on
FirstObjectLine(stdout, p) ==
    IF \E q \in 1..p : LooksLikeObject(stdout[q])
    THEN CHOOSE q \in 1..p :
            /\ LooksLikeObject(stdout[q])
            /\ \A r \in 1..(q - 1) : ~LooksLikeObject(stdout[r])
    ELSE 0

\* for line in reversed(stdout.splitlines()): ... break -- position of `last`, 0 if none
RECURSIVE LastObjectLine(_, _)
LastObjectLine(stdout, p) ==
    IF p = 0 THEN 0
    ELSE IF LooksLikeObject(stdout[p]) THEN p
    ELSE LastObjectLine(stdout, p - 1)

\* _parse_last_json: the decoded object, or the exception it raises
_parse_last_json(stdout) ==
    LET p == LastObjectLine(stdout, Len(stdout)) IN
    IF p = 0 THEN [ok |-> FALSE, err |-> "RuntimeError: No JSON summary", obj |-> << >>]
    ELSE IF stdout[p].kind # "json"
         THEN [ok |-> FALSE, err |-> "JSONDecodeError", obj |-> << >>]
    ELSE [ok |-> TRUE, err |-> "", obj |-> stdout[p].obj]

\* _extract_times
_extract_times(entry, default_sim_time) ==
    IF "doneAt" \in DOMAIN entry THEN entry["doneAt"]
    ELSE IF "endTime" \in DOMAIN entry THEN entry["endTime"]
    ELSE IF "roundTime" \in DOMAIN entry THEN entry["roundTime"]
    ELSE default_sim_time

\* mutant: only the truthiness of done_at is tested, not its sign
ThroughputTruthyOnly(rx_bytes, done_at) ==
    IF done_at # 0 THEN rx_bytes \div done_at ELSE 0

\* thr = (rx_bytes / done_at) if done_at and done_at > 0 else 0.0
Throughput(rx_bytes, done_at) ==
    IF done_at # 0 /\ done_at > 0 THEN rx_bytes \div done_at ELSE 0

\* mutant: an entry without 'id' counts as local index 0
LocalOfDefaultZero(e) == Get(e, "id", 0)

\* int(e.get('id', -1))
LocalOf(e) == Get(e, "id", DefaultLocal)

\* mutant: local indices taken as 1-based
IdMapOneBased(ids) == [local \in 1..Len(ids) |-> ids[local]]

\* id_map = {local: ids[local] for local in range(len(ids))}
IdMap(ids) == [local \in 0..(Len(ids) - 1) |-> ids[local + 1]]

\* data.get('clientResults', [])
ClientResults(data) == Get(data, "clientResults", << >>)

\* sendRequest's loop over the entries from position p on, accumulating `out`
RECURSIVE SyncLoop(_, _, _, _, _)
SyncLoop(es, p, id_map, sim, out) ==
    IF p > Len(es) THEN out
    ELSE LET e == es[p]
             local == LocalOf(e)
         IN  IF local \notin DOMAIN id_map
             THEN SyncLoop(es, p + 1, id_map, sim, out)
             ELSE LET rx_bytes == Get(e, "rxBytes", DefaultRxBytes)
                      done_at == _extract_times(e, sim)
                      thr == Throughput(rx_bytes, done_at)
                      m == [roundTime |-> done_at, throughput |-> thr]
                      key == id_map[local]
                  IN  SyncLoop(es, p + 1, id_map, sim,
                               [k \in DOMAIN out \cup {key} |->
                                    IF k = key THEN m ELSE out[k]])

\* the mapping sendRequest returns for a decoded summary
SyncResult(active_ids, data, sim) ==
    SyncLoop(ClientResults(data), 1, IdMap(active_ids), sim, << >>)

\* mutant: the first entry of an id wins
ResultsMapFirstWins(es) ==
    [l \in {LocalOf(es[i]) : i \in 1..Len(es)} |->
        es[CHOOSE i \in 1..Len(es) :
              /\ LocalOf(es[i]) = l
              /\ \A j \in 1..(i - 1) : LocalOf(es[j]) # l]]

\* results = {int(e.get('id', -1)): e for e in ...}: the last entry of an id wins
ResultsMap(es) ==
    [l \in {LocalOf(es[i]) : i \in 1..Len(es)} |->
        es[CHOOSE i \in 1..Len(es) :
              /\ LocalOf(es[i]) = l
              /\ \A j \in (i + 1)..Len(es) : LocalOf(es[j]) # l]]

\* one queue element {real_id: {'startTime', 'endTime', 'throughput'}}
Record(real_id, done_at, thr) ==
    real_id :> [startTime |-> StartTime, endTime |-> done_at, throughput |-> thr]

\* the metric of a reported entry (async paths)
ReportedRecord(real_id, ent, sim) ==
    LET rx_bytes == Get(ent, "rxBytes", DefaultRxBytes)
        done_at == _extract_times(ent, sim)
    IN  Record(real_id, done_at, Throughput(rx_bytes, done_at))

\* mutant: the synthesized record carries no duration
SynthRecordNoTime(real_id, sim) == Record(real_id, 0, 0)

\* the metric synthesized for a client the killed process did not report
SynthRecord(real_id, sim) == Record(real_id, sim, 0)

\* timeout path: for local in range(len(ids)), from `local` on
RECURSIVE TimeoutLoop(_, _, _, _)
TimeoutLoop(ids, local, results, sim) ==
    IF local >= Len(ids) THEN << >>
    ELSE LET real_id == IdMap(ids)[local]
             rec == IF local \in DOMAIN results
                    THEN ReportedRecord(real_id, results[local], sim)
                    ELSE SynthRecord(real_id, sim)
         IN  <<rec>> \o TimeoutLoop(ids, local + 1, results, sim)

\* normal path: for local in range(len(ids)), from `local` on
RECURSIVE NormalLoop(_, _, _, _)
NormalLoop(ids, local, results, sim) ==
    IF local >= Len(ids) THEN << >>
    ELSE (IF local \notin DOMAIN results THEN << >>
          ELSE <<ReportedRecord(IdMap(ids)[local], results[local], sim)>>)
         \o NormalLoop(ids, local + 1, results, sim)

\* mutant: the deadline is the multiple of sim_time, without the floor
NewDeadlineNoFloor(t, sim) == t + DeadlineFactor * sim

\* self._deadline = time.time() + max(10.0, 4.0 * sim_t)
NewDeadline(t, sim) == t + Max(DeadlineFloor, DeadlineFactor * sim)

\* ------------------------------------------------------------- outcomes
Ret(kind, val) == [kind |-> kind, val |-> val]
RetNone == Ret("none", << >>)              \* return (None)
RetInProgress == Ret("inprogress", << >>)  \* return {}
RetEnd == Ret("end", << >>)                \* return 'end'
RetData(rec) == Ret("data", rec)           \* return self._async_queue.pop(0)
RetMap(m) == Ret("map", m)                 \* sendRequest's mapping
Raise(err) == Ret("raise", err)            \* an exception reaches the caller

\* what the environment answered to the call: nothing, or the child's exit code
\* and captured stdout (and, on timeout, whether it exited within the grace period)
NoEnv == << >>
Env(rc, out, grace) == [rc |-> rc, out |-> out, grace |-> grace]

\* the same for the poll that ran the timeout escalation, with the time.time() it read
TimeoutEnv(out, grace, at) == [rc |-> KilledRc, out |-> out, grace |-> grace, at |-> at]

\* a call: its name, its `array` argument, the active_ids it computed from it (none
\* when it computes none), what the environment answered, and its outcome
Call(op, arg, ids, env, ret) ==
    [op |-> op, arg |-> arg, ids |-> ids, env |-> env, ret |-> ret]

NewSession(path, ids) ==
    [path |-> path, ids |-> ids, rc |-> Nil, parsed |-> Nil,
     delivered |-> << >>, ended |-> FALSE]

\* ------------------------------------------------------------------ Init
\* __init__: no process, no ids, empty queue, no deadline
Init ==
    /\ num_clients \in 1..MaxClients
    /\ sim_time \in SimTimes
    /\ proc = Nil
    /\ async_ids = << >>
    /\ async_queue = << >>
    /\ deadline = Nil
    /\ now = 0
    /\ call = Call("__init__", << >>, << >>, NoEnv, RetNone)
    /\ oscalls = << >>
    /\ sess = NewSession("idle", << >>)

\* --------------------------------------------------------- environment
\* the wall clock advances; it is followed while a process is owned, which is
\* when the code reads it
Tick ==
    /\ proc # Nil /\ deadline # Nil /\ now <= deadline[1]
    /\ now' = now + TickStep
    /\ UNCHANGED <<num_clients, sim_time, proc, async_ids, async_queue, deadline,
                   call, oscalls, sess>>

\* the child process exits on its own; its exit code and its output are read
\* by nobody before the poll that reaps it, and are drawn there
ProcExit ==
    /\ proc # Nil /\ proc[1].alive
    /\ proc' = Some([alive |-> FALSE])
    /\ UNCHANGED <<num_clients, sim_time, async_ids, async_queue, deadline, now,
                   call, oscalls, sess>>

\* ------------------------------------------------------ sendAsyncRequest
\* mutant: the start is rejected after the resets of an accepted start
StartRejectedResets(array) ==
    /\ proc # Nil
    /\ async_ids' = ActiveIds(array, num_clients)
    /\ async_queue' = << >>
    /\ deadline' = Nil
    /\ call' = Call("sendAsyncRequest", array, << >>, NoEnv,
                    Raise("RuntimeError: already in progress"))
    /\ oscalls' = << >>
    /\ UNCHANGED <<num_clients, sim_time, proc, now, sess>>

\* if self._proc is not None: raise RuntimeError('Async request already in progress.')
StartRejected(array) ==
    /\ proc # Nil
    /\ call' = Call("sendAsyncRequest", array, << >>, NoEnv,
                    Raise("RuntimeError: already in progress"))
    /\ oscalls' = << >>
    /\ UNCHANGED <<num_clients, sim_time, proc, async_ids, async_queue, deadline,
                   now, sess>>

\* mutant: the start does not look at the handle it holds
StartAcceptsAlways == TRUE

\* the guard under which sendAsyncRequest goes on to normalise and launch
StartAccepts == proc = Nil

\* empty active set: nothing is launched
StartEmpty(array) ==
    /\ StartAccepts
    /\ ActiveIds(array, num_clients) = << >>
    /\ async_ids' = ActiveIds(array, num_clients)
    /\ async_queue' = << >>
    /\ deadline' = Nil
    /\ proc' = Nil
    /\ call' = Call("sendAsyncRequest", array, ActiveIds(array, num_clients), NoEnv, RetNone)
    /\ oscalls' = << >>
    /\ sess' = NewSession("empty", << >>)
    /\ UNCHANGED <<num_clients, sim_time, now>>

\* mutant: a start that launches keeps the records queued for the previous round
StartLaunchKeepsQueue(array) ==
    /\ StartAccepts
    /\ ActiveIds(array, num_clients) # << >>
    /\ now <= MaxTime
    /\ async_ids' = ActiveIds(array, num_clients)
    /\ async_queue' = async_queue
    /\ proc' = Some([alive |-> TRUE])
    /\ deadline' = Some(NewDeadline(now, sim_time))
    /\ call' = Call("sendAsyncRequest", array, ActiveIds(array, num_clients), NoEnv, RetNone)
    /\ oscalls' = <<"Popen">>
    /\ sess' = NewSession("running", ActiveIds(array, num_clients))
    /\ UNCHANGED <<num_clients, sim_time, now>>

\* mutant: a start that launches sets no deadline
StartLaunchNoDeadline(array) ==
    /\ StartAccepts
    /\ ActiveIds(array, num_clients) # << >>
    /\ now <= MaxTime
    /\ async_ids' = ActiveIds(array, num_clients)
    /\ async_queue' = << >>
    /\ proc' = Some([alive |-> TRUE])
    /\ deadline' = Nil
    /\ call' = Call("sendAsyncRequest", array, ActiveIds(array, num_clients), NoEnv, RetNone)
    /\ oscalls' = <<"Popen">>
    /\ sess' = NewSession("running", ActiveIds(array, num_clients))
    /\ UNCHANGED <<num_clients, sim_time, now>>

\* non-empty active set: Popen, then the deadline
StartLaunch(array) ==
    /\ StartAccepts
    /\ ActiveIds(array, num_clients) # << >>
    /\ now <= MaxTime
    /\ async_ids' = ActiveIds(array, num_clients)
    /\ async_queue' = << >>
    /\ proc' = Some([alive |-> TRUE])
    /\ deadline' = Some(NewDeadline(now, sim_time))
    /\ call' = Call("sendAsyncRequest", array, ActiveIds(array, num_clients), NoEnv, RetNone)
    /\ oscalls' = <<"Popen">>
    /\ sess' = NewSession("running", ActiveIds(array, num_clients))
    /\ UNCHANGED <<num_clients, sim_time, now>>

\* non-empty active set, but Popen raises (the program cannot be launched)
StartLaunchFails(array) ==
    /\ StartAccepts
    /\ ActiveIds(array, num_clients) # << >>
    /\ async_ids' = ActiveIds(array, num_clients)
    /\ async_queue' = << >>
    /\ proc' = Nil
    /\ deadline' = Nil
    /\ call' = Call("sendAsyncRequest", array, ActiveIds(array, num_clients), NoEnv, Raise("OSError"))
    /\ oscalls' = <<"Popen">>
    /\ sess' = NewSession("launchfail", ActiveIds(array, num_clients))
    /\ UNCHANGED <<num_clients, sim_time, now>>

sendAsyncRequest ==
    \E array \in Arrays :
        \/ StartRejected(array)
        \/ StartEmpty(array)
        \/ StartLaunch(array)
        \/ StartLaunchFails(array)

\* ----------------------------------------------------- readAsyncResponse
\* mutant: the deadline counts as exceeded at the deadline itself
DeadlinePassedInclusive(t, d) == d # Nil /\ t >= d[1]

\* mutant: the timeout guard never fires
DeadlineNeverPassed(t, d) == FALSE

\* if self._deadline is not None and time.time() > self._deadline
DeadlinePassed(t, d) == d # Nil /\ t > d[1]

\* mutant: pop() instead of pop(0)
ServeLast(q) ==
    IF q # << >> THEN [queue |-> SubSeq(q, 1, Len(q) - 1), ret |-> RetData(q[Len(q)])]
    ELSE [queue |-> q, ret |-> RetEnd]

\* mutant: the head is returned but stays in the queue
ServeNoPop(q) ==
    IF q # << >> THEN [queue |-> q, ret |-> RetData(Head(q))]
    ELSE [queue |-> q, ret |-> RetEnd]

\* "serve one and pop": the queue left and the value returned
Serve(q) ==
    IF q # << >> THEN [queue |-> Tail(q), ret |-> RetData(Head(q))]
    ELSE [queue |-> q, ret |-> RetEnd]

\* timeout path: a parse failure is replaced by {'clientResults': []}
TolerantData(parsed) ==
    IF parsed.ok THEN parsed.obj ELSE [clientResults |-> << >>]

\* mutant: the timeout path skips unreported clients as the normal path does
TimeoutRecordsSkipMissing(ids, data, sim) ==
    NormalLoop(ids, 0, ResultsMap(ClientResults(data)), sim)

\* the records the timeout path appends to the queue
TimeoutRecords(ids, data, sim) ==
    TimeoutLoop(ids, 0, ResultsMap(ClientResults(data)), sim)

\* mutant: the normal path walks the entries in the order the simulator reported
\* them instead of walking the local indices
RECURSIVE ReportedOrderLoop(_, _, _, _)
ReportedOrderLoop(ids, es, p, sim) ==
    IF p > Len(es) THEN << >>
    ELSE (IF LocalOf(es[p]) \in DOMAIN IdMap(ids)
          THEN <<ReportedRecord(IdMap(ids)[LocalOf(es[p])], es[p], sim)>>
          ELSE << >>)
         \o ReportedOrderLoop(ids, es, p + 1, sim)

NormalRecordsReportedOrder(ids, data, sim) ==
    ReportedOrderLoop(ids, ClientResults(data), 1, sim)

\* mutant: the normal path synthesizes unreported clients as the timeout path does
NormalRecordsSynthesized(ids, data, sim) ==
    TimeoutLoop(ids, 0, ResultsMap(ClientResults(data)), sim)

\* the records the normal-completion path appends to the queue
NormalRecords(ids, data, sim) ==
    NormalLoop(ids, 0, ResultsMap(ClientResults(data)), sim)

\* mutant: the process is killed at once and terminate is the fallback
EscalationKillFirst(grace) ==
    <<"poll:None", "kill", "communicate(timeout=2)">>
    \o (IF grace THEN << >> ELSE <<"terminate", "communicate">>)

\* the subprocess calls of the timeout escalation
Escalation(grace) ==
    <<"poll:None", "terminate", "communicate(timeout=2)">>
    \o (IF grace THEN << >> ELSE <<"kill", "communicate">>)

\* history: what this poll returned, added to the session's record
Hist(s, ret) ==
    [s EXCEPT !.delivered = IF ret.kind = "data" THEN Append(@, ret.val) ELSE @,
              !.ended = @ \/ ret.kind = "end"]

\* mutant: with nothing started the poll answers "in progress"
PollNothingInProgress ==
    /\ proc = Nil /\ async_queue = << >>
    /\ call' = Call("readAsyncResponse", << >>, << >>, NoEnv, RetInProgress)
    /\ oscalls' = << >>
    /\ sess' = Hist(sess, RetInProgress)
    /\ UNCHANGED <<num_clients, sim_time, proc, async_ids, async_queue, deadline, now>>

\* if self._proc is None and not self._async_queue: return 'end'
PollNothing ==
    /\ proc = Nil /\ async_queue = << >>
    /\ call' = Call("readAsyncResponse", << >>, << >>, NoEnv, RetEnd)
    /\ oscalls' = << >>
    /\ sess' = Hist(sess, RetEnd)
    /\ UNCHANGED <<num_clients, sim_time, proc, async_ids, async_queue, deadline, now>>

\* mutant: every poll that finds the process running re-arms the deadline
PollRunningRearms ==
    /\ proc # Nil /\ proc[1].alive
    /\ ~DeadlinePassed(now, deadline)
    /\ call' = Call("readAsyncResponse", << >>, << >>, NoEnv, RetInProgress)
    /\ oscalls' = <<"poll:None">>
    /\ sess' = Hist(sess, RetInProgress)
    /\ deadline' = Some(NewDeadline(now, sim_time))
    /\ UNCHANGED <<num_clients, sim_time, proc, async_ids, async_queue, now>>

\* still running, deadline not exceeded: return {}
PollRunning ==
    /\ proc # Nil /\ proc[1].alive
    /\ ~DeadlinePassed(now, deadline)
    /\ call' = Call("readAsyncResponse", << >>, << >>, NoEnv, RetInProgress)
    /\ oscalls' = <<"poll:None">>
    /\ sess' = Hist(sess, RetInProgress)
    /\ UNCHANGED <<num_clients, sim_time, proc, async_ids, async_queue, deadline, now>>

\* mutant: the timeout path parses strictly, as the normal path does
PollTimeoutStrict(Outs) ==
    /\ proc # Nil /\ proc[1].alive
    /\ DeadlinePassed(now, deadline)
    /\ \E grace \in BOOLEAN, out \in Outs :
          LET parsed == _parse_last_json(out)
              q == async_queue \o TimeoutRecords(async_ids, parsed.obj, sim_time)
              s == Serve(q)
              h == [sess EXCEPT !.path = "timeout", !.parsed = Some(parsed)]
          IN  /\ proc' = Nil
              /\ oscalls' = Escalation(grace)
              /\ IF parsed.ok
                 THEN /\ async_queue' = s.queue
                      /\ call' = Call("readAsyncResponse", << >>, << >>,
                                      TimeoutEnv(out, grace, now), s.ret)
                      /\ sess' = Hist(h, s.ret)
                 ELSE /\ async_queue' = async_queue
                      /\ call' = Call("readAsyncResponse", << >>, << >>,
                                      TimeoutEnv(out, grace, now), Raise(parsed.err))
                      /\ sess' = h
    /\ UNCHANGED <<num_clients, sim_time, async_ids, deadline, now>>

\* mutant: past the deadline the escalation runs whether or not the process has
\* exited
PollTimeoutAnyProcess(Outs) ==
    /\ proc # Nil
    /\ DeadlinePassed(now, deadline)
    /\ \E grace \in BOOLEAN, out \in Outs :
          LET parsed == _parse_last_json(out)
              q == async_queue \o TimeoutRecords(async_ids, TolerantData(parsed), sim_time)
              s == Serve(q)
          IN  /\ proc' = Nil
              /\ async_queue' = s.queue
              /\ call' = Call("readAsyncResponse", << >>, << >>, TimeoutEnv(out, grace, now),
                              s.ret)
              /\ oscalls' = Escalation(grace)
              /\ sess' = Hist([sess EXCEPT !.path = "timeout", !.parsed = Some(parsed)],
                              s.ret)
    /\ UNCHANGED <<num_clients, sim_time, async_ids, deadline, now>>

\* still running, deadline exceeded: terminate (kill unless it exits within the
\* grace period), parse tolerantly, synthesize, then serve
PollTimeoutOver(Outs) ==
    /\ proc # Nil /\ proc[1].alive
    /\ DeadlinePassed(now, deadline)
    /\ \E grace \in BOOLEAN, out \in Outs :
          LET parsed == _parse_last_json(out)
              q == async_queue \o TimeoutRecords(async_ids, TolerantData(parsed), sim_time)
              s == Serve(q)
          IN  /\ proc' = Nil
              /\ async_queue' = s.queue
              /\ call' = Call("readAsyncResponse", << >>, << >>, TimeoutEnv(out, grace, now),
                              s.ret)
              /\ oscalls' = Escalation(grace)
              /\ sess' = Hist([sess EXCEPT !.path = "timeout", !.parsed = Some(parsed)],
                              s.ret)
    /\ UNCHANGED <<num_clients, sim_time, async_ids, deadline, now>>

\* mutant: the handle is dropped only after the output has been parsed, so a
\* parse failure leaves it owned
PollFinishedDropsLate(Outs) ==
    /\ proc # Nil /\ ~proc[1].alive
    /\ \E rc \in ExitCodes, out \in Outs :
       LET parsed == _parse_last_json(out)
           q == async_queue \o NormalRecords(async_ids, parsed.obj, sim_time)
           s == Serve(q)
           h == [sess EXCEPT !.path = "normal", !.parsed = Some(parsed),
                             !.rc = Some(rc)]
       IN  /\ oscalls' = <<"poll:exited", "poll:exited", "communicate">>
           /\ IF parsed.ok
              THEN /\ proc' = Nil
                   /\ async_queue' = s.queue
                   /\ call' = Call("readAsyncResponse", << >>, << >>, Env(rc, out, TRUE), s.ret)
                   /\ sess' = Hist(h, s.ret)
              ELSE /\ proc' = proc
                   /\ async_queue' = async_queue
                   /\ call' = Call("readAsyncResponse", << >>, << >>, Env(rc, out, TRUE),
                                   Raise(parsed.err))
                   /\ sess' = h
    /\ UNCHANGED <<num_clients, sim_time, async_ids, deadline, now>>

\* the process has exited: reap it, parse strictly, build the queue, then serve
PollFinishedOver(Outs) ==
    /\ proc # Nil /\ ~proc[1].alive
    /\ \E rc \in ExitCodes, out \in Outs :
       LET parsed == _parse_last_json(out)
           q == async_queue \o NormalRecords(async_ids, parsed.obj, sim_time)
           s == Serve(q)
           h == [sess EXCEPT !.path = "normal", !.parsed = Some(parsed),
                             !.rc = Some(rc)]
       IN  /\ proc' = Nil
           /\ oscalls' = <<"poll:exited", "poll:exited", "communicate">>
           /\ IF parsed.ok
              THEN /\ async_queue' = s.queue
                   /\ call' = Call("readAsyncResponse", << >>, << >>, Env(rc, out, TRUE), s.ret)
                   /\ sess' = Hist(h, s.ret)
              ELSE /\ async_queue' = async_queue
                   /\ call' = Call("readAsyncResponse", << >>, << >>, Env(rc, out, TRUE),
                                   Raise(parsed.err))
                   /\ sess' = h
    /\ UNCHANGED <<num_clients, sim_time, async_ids, deadline, now>>

\* no process, queue built earlier: serve one and pop
PollServe ==
    /\ proc = Nil /\ async_queue # << >>
    /\ LET s == Serve(async_queue)
       IN  /\ async_queue' = s.queue
           /\ call' = Call("readAsyncResponse", << >>, << >>, NoEnv, s.ret)
           /\ sess' = Hist(sess, s.ret)
    /\ oscalls' = << >>
    /\ UNCHANGED <<num_clients, sim_time, proc, async_ids, deadline, now>>

PollTimeout == PollTimeoutOver(StdOuts)

PollFinished == PollFinishedOver(StdOuts)

readAsyncResponse ==
    \/ PollNothing
    \/ PollRunning
    \/ PollTimeout
    \/ PollFinished
    \/ PollServe

\* ------------------------------------------------------------ sendRequest
\* mutant: the exit status is not read, as in the asynchronous normal path
SyncOutcomeIgnoresRc(active_ids, rc, out, sim) ==
    LET parsed == _parse_last_json(out) IN
    IF ~parsed.ok THEN Raise(parsed.err)
    ELSE RetMap(SyncResult(active_ids, parsed.obj, sim))

\* the outcome of sendRequest once the child ran: exit code rc, stdout out
SyncOutcome(active_ids, rc, out, sim) ==
    LET parsed == _parse_last_json(out) IN
    IF rc # 0 THEN Raise("RuntimeError: ns-3 run failed")
    ELSE IF ~parsed.ok THEN Raise(parsed.err)
    ELSE RetMap(SyncResult(active_ids, parsed.obj, sim))

\* mutant: the synchronous call keeps its active ids in the field the asynchronous
\* session records its own in
SendRequestRecordsIds(array, rc, out) ==
    /\ LET active_ids == ActiveIds(array, num_clients) IN
       /\ async_ids' = active_ids
       /\ IF active_ids = << >>
          THEN /\ call' = Call("sendRequest", array, active_ids, NoEnv, RetMap(<< >>))
               /\ oscalls' = << >>
          ELSE /\ call' = Call("sendRequest", array, active_ids, Env(rc, out, TRUE),
                               SyncOutcome(active_ids, rc, out, sim_time))
               /\ oscalls' = <<"run">>
    /\ UNCHANGED <<num_clients, sim_time, proc, async_queue, deadline, now, sess>>

SendRequest(array, rc, out) ==
    /\ LET active_ids == ActiveIds(array, num_clients) IN
       IF active_ids = << >>
       THEN /\ call' = Call("sendRequest", array, active_ids, NoEnv, RetMap(<< >>))
            /\ oscalls' = << >>
       ELSE /\ call' = Call("sendRequest", array, active_ids, Env(rc, out, TRUE),
                            SyncOutcome(active_ids, rc, out, sim_time))
            /\ oscalls' = <<"run">>
    /\ UNCHANGED <<num_clients, sim_time, proc, async_ids, async_queue, deadline,
                   now, sess>>

sendRequest ==
    \E array \in Arrays, rc \in ExitCodes, out \in StdOuts : SendRequest(array, rc, out)

\* ------------------------------------------------------------------ Spec
Next ==
    \/ sendAsyncRequest
    \/ readAsyncResponse
    \/ ProcExit
    \/ Tick

Spec == Init /\ [][Next]_vars

\* the synchronous API alone, over every output
SyncNext == sendRequest

SyncSpec == Init /\ [][SyncNext]_vars

\* both APIs, each exercised on its own instance: a run makes synchronous calls
\* only, or asynchronous calls only
ApiNext ==
    \/ call.op \in {"__init__", "sendRequest"} /\ sendRequest
    \/ call.op # "sendRequest" /\ Next

ApiSpec == Init /\ [][ApiNext]_vars

\* the caller of the round loop: a new round is started once the previous one
\* has been drained to 'end' (or never launched a process); polls go on meanwhile
CallerIdle == sess.path \notin {"running", "normal", "timeout"} \/ sess.ended

\* the outputs that decide how a session proceeds: no decodable summary, a
\* summary reporting one client, a summary reporting every client
LiveOuts ==
    {<<TextLine, BraceLine>>, <<TextLine, Summary(<<E1>>), TextLine>>,
     <<TextLine, Summary(<<E1, E2, E7>>), TextLine>>}

LivePoll ==
    \/ PollNothing
    \/ PollRunning
    \/ PollTimeoutOver(LiveOuts)
    \/ PollFinishedOver(LiveOuts)
    \/ PollServe

LiveNext ==
    \/ \E array \in Arrays : StartRejected(array)
    \/ \E array \in Arrays : CallerIdle /\ StartEmpty(array)
    \/ \E array \in Arrays : CallerIdle /\ StartLaunch(array)
    \/ \E array \in Arrays : CallerIdle /\ StartLaunchFails(array)
    \/ LivePoll
    \/ ProcExit
    \/ Tick

\* the caller keeps polling and the wall clock keeps advancing; nothing makes
\* the child process exit on its own
LiveSpec == Init /\ [][LiveNext]_vars /\ WF_vars(LivePoll) /\ WF_vars(Tick)

\* ------------------------------------------------- failing subprocess calls
\* the subprocess calls of a poll that may raise: the terminate request, the grace
\* wait (an exception other than TimeoutExpired, e.g. output that cannot be
\* decoded as text), the kill, the capture after the kill, the capture on normal
\* completion
TerminationSteps == {"terminate", "wait", "kill", "capture"}

\* what the environment answered to a poll one of whose subprocess calls raised
FaultEnv(rc, out, grace, at, fail) ==
    [rc |-> rc, out |-> out, grace |-> grace, at |-> at, fail |-> fail]

\* the timeout escalation when step `fail` raises: terminate and kill are under
\* `except Exception: pass`; the grace wait is under `except TimeoutExpired` only
\* and the capture after the kill is inside that handler, so what they raise
\* leaves the call, after `finally: self._proc = None`
PollTimeoutFaulty ==
    /\ proc # Nil /\ proc[1].alive
    /\ DeadlinePassed(now, deadline)
    /\ \E fail \in TerminationSteps, grace \in BOOLEAN, out \in LiveOuts :
          LET parsed == _parse_last_json(out)
              q == async_queue \o TimeoutRecords(async_ids, TolerantData(parsed), sim_time)
              s == Serve(q)
              h == [sess EXCEPT !.path = "timeout"]
          IN  /\ fail \in {"wait", "kill", "capture"} => ~grace
              /\ proc' = Nil
              /\ oscalls' = IF fail = "wait" THEN Escalation(TRUE) ELSE Escalation(grace)
              /\ IF fail \in {"terminate", "kill"}
                 THEN /\ async_queue' = s.queue
                      /\ call' = Call("readAsyncResponse", << >>, << >>,
                                      FaultEnv(KilledRc, out, grace, now, fail), s.ret)
                      /\ sess' = Hist([h EXCEPT !.parsed = Some(parsed)], s.ret)
                 ELSE /\ async_queue' = async_queue
                      /\ call' = Call("readAsyncResponse", << >>, << >>,
                                      FaultEnv(KilledRc, << >>, grace, now, fail),
                                      Raise("Exception: " \o fail))
                      /\ sess' = h
    /\ UNCHANGED <<num_clients, sim_time, async_ids, deadline, now>>

\* normal completion when communicate() raises: line 256 is not reached, the
\* handle stays
PollFinishedFaulty ==
    /\ proc # Nil /\ ~proc[1].alive
    /\ \E rc \in ExitCodes :
          /\ call' = Call("readAsyncResponse", << >>, << >>,
                          FaultEnv(rc, << >>, TRUE, now, "capture"),
                          Raise("Exception: capture"))
          /\ sess' = [sess EXCEPT !.path = "normal", !.rc = Some(rc)]
    /\ oscalls' = <<"poll:exited", "poll:exited", "communicate">>
    /\ UNCHANGED <<num_clients, sim_time, proc, async_ids, async_queue, deadline, now>>

FaultNext ==
    \/ Next
    \/ PollTimeoutFaulty
    \/ PollFinishedFaulty

\* the asynchronous API in an environment where subprocess calls may raise
FaultSpec == Init /\ [][FaultNext]_vars

\* ------------------------------------------------ both APIs on one instance
\* the arrays and outputs of the runs that mix the two APIs: no client, two
\* clients in either order; no decodable summary, a summary listing client 1
\* first, one reporting client 0 twice, one reporting every client
MixArrays == {<< >>, <<0, 2>>, <<2, 0>>}

MixOuts ==
    {<<TextLine, BraceLine>>} \cup
    {<<TextLine, Summary(es), TextLine>> :
        es \in {<<E2, E1>>, <<E1, E3>>, <<E1, E2, E7>>}}

MixSync ==
    \E array \in MixArrays, rc \in ExitCodes, out \in MixOuts :
        SendRequest(array, rc, out)

MixPoll ==
    \/ PollNothing
    \/ PollRunning
    \/ PollTimeoutOver(MixOuts)
    \/ PollFinishedOver(MixOuts)
    \/ PollServe

MixNext ==
    \/ \E array \in MixArrays : StartRejected(array)
    \/ \E array \in MixArrays : StartEmpty(array)
    \/ \E array \in MixArrays : StartLaunch(array)
    \/ \E array \in MixArrays : StartLaunchFails(array)
    \/ MixPoll
    \/ MixSync
    \/ ProcExit
    \/ Tick

\* sendRequest called at any point of an asynchronous session
MixSpec == Init /\ [][MixNext]_vars

\* ======================================================================
\* Properties
\* ======================================================================
Range(f) == {f[x] : x \in DOMAIN f}

\* the logical id a queue element is keyed by, and the ids of a list of them
KeyOf(rec) == CHOOSE k \in DOMAIN rec : TRUE
KeysOf(recs) == [i \in 1..Len(recs) |-> KeyOf(recs[i])]

\* the entries of the summary a parse produced (none when it failed)
EntriesOf(parsed) ==
    IF parsed.ok /\ "clientResults" \in DOMAIN parsed.obj
    THEN parsed.obj["clientResults"] ELSE << >>

\* the local indices a summary reports
Reported(parsed) ==
    LET es == EntriesOf(parsed)
    IN  {es[p]["id"] : p \in {q \in 1..Len(es) : "id" \in DOMAIN es[q]}}

\* the elements of ids whose local index (position - 1) is in locals, in order
RECURSIVE Pick(_, _, _)
Pick(ids, locals, p) ==
    IF p > Len(ids) THEN << >>
    ELSE (IF (p - 1) \in locals THEN <<ids[p]>> ELSE << >>) \o Pick(ids, locals, p + 1)

SessReported == IF sess.parsed = Nil THEN {} ELSE Reported(sess.parsed[1])

\* the last call was a poll that ran the timeout escalation
TimeoutPolled ==
    /\ call.op = "readAsyncResponse"
    /\ Len(oscalls) >= 2 /\ oscalls[2] = "terminate"

\* ---------------------------------------------------------------------- C1
\* C1 as stated: once a session whose process ended (normal exit or timeout) has
\* returned 'end', the polls before it returned exactly one record per active
\* client, |ActiveSet| in all.
C1_AsStated ==
    (sess.ended /\ sess.path \in {"normal", "timeout"})
        => KeysOf(sess.delivered) = sess.ids

\* C1 amended: before the first 'end', the timeout path has delivered one record
\* per active client, in ActiveSet order; a normal exit has delivered one record
\* per active client whose local index the summary reports, and none when the
\* output has no decodable summary.
C1_Drain ==
    (sess.ended /\ sess.path \in {"normal", "timeout"})
        => KeysOf(sess.delivered) =
              (IF sess.path = "timeout" THEN sess.ids
               ELSE Pick(sess.ids, SessReported, 1))

C1_Witness ==
    /\ sess.ended /\ sess.path = "timeout"
    /\ Len(sess.ids) = 2 /\ Len(sess.delivered) = 2
    /\ SessReported = {}

\* ---------------------------------------------------------------------- C2
\* C2: a poll that finds the process owned and alive (its Popen.poll() answers
\* None) returns the in-progress marker {} unless it runs the timeout escalation,
\* and it runs the escalation only when the time it read is past the deadline; so
\* while the clock is not past the deadline every such poll returns {}.
C2_InProgress ==
    (call.op = "readAsyncResponse" /\ oscalls # << >> /\ oscalls[1] = "poll:None")
        => IF TimeoutPolled
           THEN deadline # Nil /\ call.env.at > deadline[1]
           ELSE call.ret = RetInProgress

C2_Witness ==
    /\ call.op = "readAsyncResponse" /\ call.ret = RetInProgress
    /\ oscalls = <<"poll:None">>
    /\ proc # Nil /\ proc[1].alive
    /\ deadline # Nil /\ now = deadline[1]

\* ---------------------------------------------------------------------- C3
\* C3 as stated: sendAsyncRequest raises the usage error in every non-Idle state,
\* i.e. whenever a process is owned or the delivery queue still holds records.
C3_AsStated ==
    [][(sendAsyncRequest /\ (proc # Nil \/ async_queue # << >>))
           => call'.ret = Raise("RuntimeError: already in progress")]_vars

\* ---------------------------------------------------------------------- C4
\* C4: once a process has been launched, a poll eventually returns 'end', also
\* when the process never exits on its own.
C4_EventuallyEnd ==
    (sess.path = "running")
        ~> (call.op = "readAsyncResponse" /\ call.ret = RetEnd)

C4_Witness ==
    /\ sess.path = "timeout" /\ sess.ended
    /\ call.op = "readAsyncResponse" /\ call.ret = RetEnd

\* ---------------------------------------------------------------------- C5
\* C5: after the poll that ran the timeout escalation, the record of every active
\* client whose local index the parsed output does not report is
\* {logical id: {startTime 0, endTime sim_time, throughput 0}}.
C5_Synthesized ==
    TimeoutPolled =>
        /\ call.ret.kind = "data"
        /\ LET recs == <<call.ret.val>> \o async_queue
               reported == Reported(_parse_last_json(call.env.out))
           IN  /\ Len(recs) = Len(async_ids)
               /\ \A i \in 1..Len(async_ids) :
                     (i - 1) \notin reported =>
                        recs[i] = (async_ids[i] :>
                                     [startTime |-> 0, endTime |-> sim_time,
                                      throughput |-> 0])

C5_Witness ==
    /\ TimeoutPolled
    /\ Len(async_ids) = 2
    /\ Reported(_parse_last_json(call.env.out)) = {0}

EmptyInput(array, nc) ==
    array = << >> \/ (Len(array) = nc /\ \A i \in 1..Len(array) : array[i] = 0)

\* C7: on an empty input sendRequest returns {} and sendAsyncRequest returns with
\* no process owned, neither spawns a process, and the polls that follow such a
\* start return 'end'.
C7_EmptyShortCircuit ==
    /\ (call.op = "sendRequest" /\ EmptyInput(call.arg, num_clients))
          => (call.ret = RetMap(<< >>) /\ oscalls = << >>)
    /\ (/\ call.op = "sendAsyncRequest" /\ call.ret.kind # "raise"
        /\ EmptyInput(call.arg, num_clients))
          => (proc = Nil /\ oscalls = << >> /\ async_queue = << >>)
    /\ (sess.path = "empty" /\ call.op = "readAsyncResponse")
          => call.ret = RetEnd

C7_Witness ==
    /\ call.op = "sendAsyncRequest" /\ call.ret = RetNone
    /\ Len(call.arg) = num_clients /\ EmptyInput(call.arg, num_clients)

\* ---------------------------------------------------------------------- C8
\* an explicit list of distinct ids of 0..nc-1 in ascending order
AscendingIds(array, nc) ==
    /\ \A i \in 1..Len(array) : array[i] \in 0..(nc - 1)
    /\ \A i, j \in 1..Len(array) : i < j => array[i] < array[j]

\* the bitmap of length nc of the ids of a list
BitmapOf(array, nc) == [i \in 1..nc |-> IF (i - 1) \in Range(array) THEN 1 ELSE 0]

\* C8 as stated: an ascending explicit list of ids is taken as given, and is
\* normalised to the same active ids as the bitmap of the same set, in both APIs.
C8_AsStated ==
    (/\ call.op \in {"sendRequest", "sendAsyncRequest"}
     /\ call.ret # Raise("RuntimeError: already in progress")
     /\ AscendingIds(call.arg, num_clients))
        => /\ call.ids = call.arg
           /\ call.ids = ActiveIds(BitmapOf(call.arg, num_clients), num_clients)

\* ---------------------------------------------------------------------- C9
SyncReturnedMap ==
    /\ call.op = "sendRequest" /\ call.ret.kind = "map"
    /\ call.ids # << >>

\* C9 as stated: the mapping sendRequest returns has exactly the requested
\* logical ids as keys.
C9_AsStated ==
    SyncReturnedMap => DOMAIN call.ret.val = Range(call.ids)

\* C9 amended: the keys of the mapping are exactly the requested ids ActiveSet[i]
\* whose local index i the summary reports; a requested id whose local index is
\* not reported has no entry.
C9_ReportedOnly ==
    SyncReturnedMap =>
        DOMAIN call.ret.val =
            {call.ids[i + 1] :
                i \in Reported(_parse_last_json(call.env.out))
                      \cap 0..(Len(call.ids) - 1)}

C9_Witness ==
    /\ SyncReturnedMap
    /\ Cardinality(Range(call.ids)) = 2
    /\ Cardinality(DOMAIN call.ret.val) = 1

\* --------------------------------------------------------------------- C10
\* C10: when the child exits with status 0 and prints a decodable summary,
\* sendRequest returns a mapping (no error); every entry with a local index i in
\* range has its key ActiveSet[i] in it; every key comes from such an entry, with
\* that entry's metric; so the keys are active ids and are no more than them.
C10_Remap ==
    (/\ call.op = "sendRequest" /\ call.env # NoEnv
     /\ call.env.rc = 0 /\ _parse_last_json(call.env.out).ok)
        => /\ call.ret.kind = "map"
           /\ LET es == EntriesOf(_parse_last_json(call.env.out))
                  ids == call.ids
                  m == call.ret.val
                  InRange(p) == /\ "id" \in DOMAIN es[p]
                                /\ es[p]["id"] \in 0..(Len(ids) - 1)
                  done(p) == _extract_times(es[p], sim_time)
                  rx(p) == IF "rxBytes" \in DOMAIN es[p] THEN es[p]["rxBytes"] ELSE 0
              IN  /\ \A p \in 1..Len(es) :
                        InRange(p) => ids[es[p]["id"] + 1] \in DOMAIN m
                  /\ \A k \in DOMAIN m :
                        \E p \in 1..Len(es) :
                            /\ InRange(p)
                            /\ ids[es[p]["id"] + 1] = k
                            /\ m[k].roundTime = done(p)
                            /\ m[k].throughput = Throughput(rx(p), done(p))
                  /\ DOMAIN m \subseteq Range(ids)
                  /\ Cardinality(DOMAIN m) <= Len(ids)

C10_Witness ==
    /\ call.op = "sendRequest" /\ call.ret.kind = "map"
    /\ Len(call.ids) = 2
    /\ call.env # NoEnv
    /\ LET es == EntriesOf(_parse_last_json(call.env.out))
       IN  /\ \E p \in 1..Len(es) : "id" \notin DOMAIN es[p]
           /\ \E p \in 1..Len(es) : "id" \in DOMAIN es[p] /\ es[p]["id"] = 1
    /\ DOMAIN call.ret.val # {}

\* --------------------------------------------------------------------- C11
\* the poll that built the delivery queue: it ran the timeout escalation, or it
\* reaped the exited process and decoded its summary
QueueBuilt ==
    /\ call.op = "readAsyncResponse" /\ call.env # NoEnv
    /\ call.ret.kind # "raise"

\* the records that poll put on the queue (the one it returned included)
BuiltRecords ==
    (IF call.ret.kind = "data" THEN <<call.ret.val>> ELSE << >>) \o async_queue

\* the received bytes an entry reports (none reported: 0)
RxOf(e) == IF "rxBytes" \in DOMAIN e THEN e["rxBytes"] ELSE 0

\* the entries of es that report the client with logical id k of ids
EntriesFor(es, ids, k) ==
    {p \in 1..Len(es) :
        /\ "id" \in DOMAIN es[p]
        /\ es[p]["id"] \in 0..(Len(ids) - 1)
        /\ ids[es[p]["id"] + 1] = k}

\* some position of ids holds k and no entry of es reports its local index
Unreported(es, ids, k) ==
    \E l \in 0..(Len(ids) - 1) :
        /\ ids[l + 1] = k
        /\ \A p \in 1..Len(es) : "id" \in DOMAIN es[p] => es[p]["id"] # l

\* rxBytes / completionTime when completionTime > 0, else 0
RateOrZero(rx, t) == IF t > 0 THEN rx \div t ELSE 0

\* C11: in the mapping sendRequest returns and in every record a poll puts on the
\* queue (normal exit and timeout), throughput is rxBytes / t of an entry reporting
\* that client when the recorded completion time t is positive, and 0 when t is
\* zero or negative; a record synthesized on the timeout path for a client no entry
\* reports counts as 0 bytes received.
C11_Throughput ==
    /\ (call.op = "sendRequest" /\ call.ret.kind = "map" /\ call.env # NoEnv) =>
          LET es == EntriesOf(_parse_last_json(call.env.out))
              m == call.ret.val
          IN  \A k \in DOMAIN m :
                 \E p \in EntriesFor(es, call.ids, k) :
                     m[k].throughput = RateOrZero(RxOf(es[p]), m[k].roundTime)
    /\ QueueBuilt =>
          LET es == EntriesOf(_parse_last_json(call.env.out))
              recs == BuiltRecords
          IN  \A i \in 1..Len(recs) :
                 LET k == KeyOf(recs[i])
                     mt == recs[i][k]
                 IN  \/ \E p \in EntriesFor(es, async_ids, k) :
                            mt.throughput = RateOrZero(RxOf(es[p]), mt.endTime)
                     \/ /\ TimeoutPolled /\ Unreported(es, async_ids, k)
                        /\ mt.throughput = RateOrZero(0, mt.endTime)

\* a poll returns a record whose entry reports bytes and a completion time of zero
\* or less: its throughput is 0
C11_Witness ==
    /\ QueueBuilt /\ call.ret.kind = "data"
    /\ LET k == KeyOf(call.ret.val)
           es == EntriesOf(_parse_last_json(call.env.out))
       IN  /\ call.ret.val[k].endTime <= 0
           /\ call.ret.val[k].throughput = 0
           /\ \E p \in EntriesFor(es, async_ids, k) : RxOf(es[p]) > 0
    /\ sess.path \in {"normal", "timeout"}

\* --------------------------------------------------------------------- C12
\* the entry carries a completion-time field under one of the accepted names
HasTime(e) == DOMAIN e \cap {"doneAt", "endTime", "roundTime"} # {}

\* the completion time the claim expects for an entry: its reported value, or
\* sim_time when it reports none or a value of zero or less
FallbackTime(e) ==
    IF ~HasTime(e) \/ _extract_times(e, sim_time) <= 0
    THEN sim_time ELSE _extract_times(e, sim_time)

\* C12 as stated: every completion time handed to the caller (roundTime of the
\* sync mapping, endTime of the async records) is positive, and is sim_time when
\* the client's entry has no completion-time field or a value of zero or less.
C12_AsStated ==
    /\ (call.op = "sendRequest" /\ call.ret.kind = "map" /\ call.env # NoEnv) =>
          LET es == EntriesOf(_parse_last_json(call.env.out))
              m == call.ret.val
          IN  \A k \in DOMAIN m :
                 /\ m[k].roundTime > 0
                 /\ \E p \in EntriesFor(es, call.ids, k) :
                       m[k].roundTime = FallbackTime(es[p])
    /\ QueueBuilt =>
          LET es == EntriesOf(_parse_last_json(call.env.out))
              recs == BuiltRecords
          IN  \A i \in 1..Len(recs) :
                 LET k == KeyOf(recs[i])
                     mt == recs[i][k]
                 IN  /\ mt.endTime > 0
                     /\ \/ \E p \in EntriesFor(es, async_ids, k) :
                              mt.endTime = FallbackTime(es[p])
                        \/ /\ TimeoutPolled /\ Unreported(es, async_ids, k)
                           /\ mt.endTime = sim_time

\* --------------------------------------------------------------------- C13
\* the last call was the poll that reaped a process that had exited on its own
ReapPolled ==
    /\ call.op = "readAsyncResponse"
    /\ oscalls # << >> /\ oscalls[1] = "poll:exited"

\* C13 as stated: the poll that observes an exit with a non-zero status raises an
\* error to the caller (read here as any error, not only the run error the claim
\* names) and leaves no data record for the round, whatever the process printed.
C13_AsStated ==
    (ReapPolled /\ call.env.rc # 0)
        => /\ call.ret.kind = "raise"
           /\ async_queue = << >>

\* --------------------------------------------------------------------- C14
\* C14: when the simulator run by sendRequest exits with a non-zero status, the
\* call raises the run error: not a mapping, and not the parse error either when
\* the output has no decodable summary, so the status is tested before parsing.
C14_RunErrorFirst ==
    (call.op = "sendRequest" /\ call.env # NoEnv /\ call.env.rc # 0)
        => call.ret = Raise("RuntimeError: ns-3 run failed")

\* a failed run whose stdout carries a summary reporting a requested client
C14_Witness ==
    /\ call.op = "sendRequest" /\ call.env # NoEnv /\ call.env.rc # 0
    /\ call.ret.kind = "raise"
    /\ LET parsed == _parse_last_json(call.env.out)
       IN  /\ parsed.ok
           /\ \E k \in Range(call.ids) :
                 EntriesFor(EntriesOf(parsed), call.ids, k) # {}

\* --------------------------------------------------------------------- C15
\* the last call failed fatally: a poll reaped the exited process and found no
\* summary line or an undecodable one, or a start could not launch the process
FatalPoll == ReapPolled /\ ~_parse_last_json(call.env.out).ok

LaunchFailed ==
    /\ call.op = "sendAsyncRequest" /\ oscalls = <<"Popen">>
    /\ call.ret.kind = "raise"

\* C15: such a call raises to the caller and leaves the session Idle: no process
\* handle, an empty queue; the poll that follows returns 'end', and the start that
\* follows is not refused (it fails only if the launch itself fails again).
C15_FailLeavesIdle ==
    [][/\ FatalPoll' => call'.ret = Raise(_parse_last_json(call'.env.out).err)
       /\ (FatalPoll' \/ LaunchFailed') => (proc' = Nil /\ async_queue' = << >>)
       /\ ((FatalPoll \/ LaunchFailed) /\ call'.op = "readAsyncResponse")
             => call'.ret = RetEnd
       /\ ((FatalPoll \/ LaunchFailed) /\ call'.op = "sendAsyncRequest")
             => call'.ret \in {RetNone, Raise("OSError")}]_vars

\* the poll after a poll that raised on an undecodable summary line returned 'end'
C15_Witness ==
    /\ sess.path = "normal" /\ sess.parsed # Nil
    /\ sess.parsed[1].err = "JSONDecodeError"
    /\ sess.ended
    /\ call.op = "readAsyncResponse" /\ call.ret = RetEnd

\* --------------------------------------------------------------------- C16
\* the record synthesized for logical id k
Synthesized(k) == k :> [startTime |-> 0, endTime |-> sim_time, throughput |-> 0]

\* C16: when the output captured by the timeout escalation has no summary line or
\* an undecodable one, the poll does not raise: it returns the synthesized record
\* of the first active client and leaves those of the others queued, in order.
C16_TolerantTimeout ==
    (TimeoutPolled /\ ~_parse_last_json(call.env.out).ok)
        => /\ async_ids # << >>
           /\ call.ret = RetData(Synthesized(async_ids[1]))
           /\ async_queue =
                 [i \in 1..(Len(async_ids) - 1) |-> Synthesized(async_ids[i + 1])]

\* a timeout whose output ends in a brace-delimited line that does not decode,
\* with two active clients
C16_Witness ==
    /\ TimeoutPolled
    /\ _parse_last_json(call.env.out).err = "JSONDecodeError"
    /\ Len(async_ids) = 2 /\ Len(async_queue) = 1
    /\ call.ret.kind = "data"

\* --------------------------------------------------------------------- C17
\* C17: a start spawns a background process (Popen) only from a state in which no
\* process handle is held, and the handle it then holds is that of the process it
\* spawned; a start made while a handle is held spawns nothing and leaves the handle
\* as it is. So the instance never owns more than one background process. (A step
\* that leaves a start as the last call without advancing the clock is that start,
\* or the exit of the process, which is excluded.)
C17_SingleProcess ==
    [][(call'.op = "sendAsyncRequest" /\ now' = now /\ ~ProcExit) =>
          /\ ("Popen" \in Range(oscalls')) => proc = Nil
          /\ (proc # Nil) => (oscalls' = << >> /\ proc' = proc)
          /\ (proc' # Nil /\ proc = Nil) => (oscalls' = <<"Popen">> /\ proc'[1].alive)]_vars

\* a process is spawned by a start that follows an earlier session
C17_Witness ==
    /\ call.op = "sendAsyncRequest" /\ call.ret = RetNone
    /\ oscalls = <<"Popen">>
    /\ proc # Nil /\ proc[1].alive
    /\ now > 0

\* --------------------------------------------------------------------- C18
\* no process handle is owned and the delivery queue is empty
NothingPending == proc = Nil /\ async_queue = << >>

\* the step is a start that spawned a process for a non-empty active set
Launched ==
    /\ call'.op = "sendAsyncRequest" /\ call'.ret = RetNone
    /\ call'.ids # << >> /\ oscalls' = <<"Popen">>

\* C18: a poll made while nothing is pending returns 'end' (from the initial
\* state on); a poll returns 'end' only with nothing pending afterwards; and
\* nothing stays pending through every step but a start that spawns a process. So
\* after an 'end' every poll returns 'end' until such a start.
C18_EndSentinel ==
    [][/\ (NothingPending /\ readAsyncResponse) => call'.ret = RetEnd
       /\ (call'.op = "readAsyncResponse" /\ call'.ret = RetEnd) => NothingPending'
       /\ (NothingPending /\ ~Launched) => NothingPending']_vars

\* 'end' returned once both records of a normally completed session were delivered
C18_Witness ==
    /\ call.op = "readAsyncResponse" /\ call.ret = RetEnd
    /\ sess.ended /\ sess.path = "normal" /\ Len(sess.delivered) = 2
    /\ NothingPending

\* --------------------------------------------------------------------- C19
\* the positions of the lines of out that start with '{' and end with '}'
BraceShaped(out) == {p \in 1..Len(out) : out[p].kind \in {"brace", "json"}}

\* C19: for the stdout sendRequest captured, _parse_last_json fails with 'No JSON
\* summary' when no line is brace-shaped; otherwise it decodes the brace-shaped
\* line closest to the end and nothing else: the result is that line's object, or
\* the decoding error of that line, whatever the lines before it are. A run that
\* exited with status 0 raises exactly that failure.
C19_LastBraceLine ==
    (call.op = "sendRequest" /\ call.env # NoEnv) =>
        LET out == call.env.out
            r == _parse_last_json(out)
        IN  /\ IF BraceShaped(out) = {}
               THEN ~r.ok /\ r.err = "RuntimeError: No JSON summary"
               ELSE LET p == CHOOSE p \in BraceShaped(out) :
                                \A q \in BraceShaped(out) : q <= p
                    IN  IF out[p].kind = "json"
                        THEN r.ok /\ r.obj = out[p].obj
                        ELSE ~r.ok /\ r.err = "JSONDecodeError"
            /\ (call.env.rc = 0 /\ ~r.ok) => call.ret = Raise(r.err)
            /\ (call.env.rc = 0 /\ r.ok) =>
                   call.ret = RetMap(SyncResult(call.ids, r.obj, sim_time))

\* two summary lines with different entries: the mapping comes from the later one
C19_Witness ==
    /\ call.op = "sendRequest" /\ call.ret.kind = "map" /\ call.env # NoEnv
    /\ LET out == call.env.out
       IN  /\ Cardinality(BraceShaped(out)) = 2
           /\ out[1].kind = "json" /\ out[2].kind = "json"
           /\ out[1].obj # out[2].obj
           /\ call.ret.val = SyncResult(call.ids, out[2].obj, sim_time)
           /\ call.ret.val # SyncResult(call.ids, out[1].obj, sim_time)

\* --------------------------------------------------------------------- C20
\* the positions of the lines of out that are well-formed JSON objects
WellFormed(out) == {p \in 1..Len(out) : out[p].kind = "json"}

\* C20 as stated: whenever the captured stdout has a well-formed JSON object line,
\* _parse_last_json returns the decoding of the last such line, whatever follows
\* it; so a run that exited with status 0 returns a mapping.
C20_AsStated ==
    (call.op = "sendRequest" /\ call.env # NoEnv /\ WellFormed(call.env.out) # {}) =>
        LET out == call.env.out
            r == _parse_last_json(out)
            p == CHOOSE p \in WellFormed(out) : \A q \in WellFormed(out) : q <= p
        IN  /\ r.ok /\ r.obj = out[p].obj
            /\ call.env.rc = 0 => call.ret.kind = "map"

\* C20 amended: when the captured stdout has a well-formed JSON object line, the
\* parser returns the decoding of the last such line provided no brace-shaped line
\* follows it (text after it and any line before it are ignored); when a
\* brace-shaped line that does not decode follows it, the parser fails with the
\* decoding error of that line and the well-formed line is not used.
C20_LastShapedDecoded ==
    (call.op = "sendRequest" /\ call.env # NoEnv /\ WellFormed(call.env.out) # {}) =>
        LET out == call.env.out
            r == _parse_last_json(out)
            p == CHOOSE p \in WellFormed(out) : \A q \in WellFormed(out) : q <= p
        IN  IF \A q \in (p + 1)..Len(out) : out[q].kind = "text"
            THEN /\ r.ok /\ r.obj = out[p].obj
                 /\ call.env.rc = 0 => call.ret.kind = "map"
            ELSE /\ ~r.ok /\ r.err = "JSONDecodeError"
                 /\ call.env.rc = 0 => call.ret = Raise("JSONDecodeError")

\* a summary followed by diagnostics text is decoded and yields a non-empty mapping
C20_Witness ==
    /\ call.op = "sendRequest" /\ call.env # NoEnv /\ call.env.rc = 0
    /\ Len(call.env.out) = 3
    /\ call.env.out[2].kind = "json" /\ call.env.out[3].kind = "text"
    /\ call.ret.kind = "map" /\ Cardinality(DOMAIN call.ret.val) = 2

\* --------------------------------------------------------------------- C21
\* C21: within a session (the polls since the last accepted start) a poll returns
\* the in-progress marker only while no record and no 'end' has been returned,
\* and returns a record only while no 'end' has been returned: the returned
\* values read {}* record* 'end'*.
C21_ReturnOrder ==
    /\ (call.op = "readAsyncResponse" /\ call.ret = RetInProgress)
          => (sess.delivered = << >> /\ ~sess.ended)
    /\ (call.op = "readAsyncResponse" /\ call.ret.kind = "data")
          => (~sess.ended /\ sess.delivered # << >>
              /\ sess.delivered[Len(sess.delivered)] = call.ret.val)
    /\ (call.op = "readAsyncResponse" /\ call.ret = RetEnd) => sess.ended

\* a timed-out session that has returned two records and then 'end'
C21_Witness ==
    /\ call.op = "readAsyncResponse" /\ call.ret = RetEnd
    /\ sess.path = "timeout" /\ sess.ended
    /\ Len(sess.delivered) = 2
    /\ oscalls = << >>

\* --------------------------------------------------------------------- C22
\* the local indices whose records a session's queue is built from: every index
\* on the timeout path, the reported ones on a normal exit
SessLocals ==
    IF sess.path = "timeout" THEN 0..(Len(sess.ids) - 1) ELSE SessReported

\* C22: a poll that serves from a queue built earlier returns its head and leaves
\* its tail; and in a session whose queue has been built, the records returned so
\* far followed by the records still queued are those of the local indices in
\* increasing order (keyed ActiveSet[i] for i ascending), on both paths and
\* whatever the order of the entries in the summary.
C22_HeadInOrder ==
    [][/\ (call'.op = "readAsyncResponse" /\ call'.env = NoEnv
           /\ async_queue' # async_queue)
             => (/\ call'.ret.kind = "data"
                 /\ async_queue = <<call'.ret.val>> \o async_queue')
       /\ (sess'.path \in {"normal", "timeout"})
             => KeysOf(sess'.delivered \o async_queue')
                   = Pick(sess'.ids, SessLocals', 1)]_vars

\* a normal exit whose summary lists client 1 before client 0: the record of
\* ActiveSet[0] was returned first, that of ActiveSet[1] second
C22_Witness ==
    /\ sess.path = "normal" /\ sess.parsed # Nil /\ sess.parsed[1].ok
    /\ LET es == EntriesOf(sess.parsed[1])
       IN  Len(es) = 2 /\ es[1] = E2 /\ es[2] = E1
    /\ Len(sess.ids) = 2 /\ sess.ids[1] # sess.ids[2]
    /\ KeysOf(sess.delivered) = sess.ids

\* --------------------------------------------------------------------- C23
\* the positions of oscalls holding the subprocess call c
CallsOf(c) == {i \in 1..Len(oscalls) : oscalls[i] = c}

\* C23: a poll issues terminate or kill only in the timeout escalation, i.e. after
\* finding the process alive at a time past the deadline. There terminate comes
\* first, then the wait bounded by the grace period; kill is issued once, after
\* both, and only when the process did not exit within the grace period; the
\* output is taken from the wait after which the process has exited: the grace
\* wait when it exited in time, else the wait that follows the kill.
C23_EscalationOrder ==
    call.op = "readAsyncResponse" =>
        /\ (CallsOf("terminate") # {} \/ CallsOf("kill") # {}) =>
              /\ oscalls[1] = "poll:None"
              /\ deadline # Nil /\ call.env.at > deadline[1]
              /\ CallsOf("terminate") = {2}
              /\ CallsOf("communicate(timeout=2)") = {3}
        /\ CallsOf("kill") # {} =>
              /\ ~call.env.grace
              /\ CallsOf("kill") = {4}
              /\ CallsOf("communicate") = {5} /\ Len(oscalls) = 5
        /\ (CallsOf("terminate") # {} /\ call.env.grace) =>
              (CallsOf("kill") = {} /\ Len(oscalls) = 3)
        /\ (CallsOf("terminate") # {} /\ ~call.env.grace) => CallsOf("kill") # {}

\* an escalation that had to kill
C23_Witness ==
    /\ TimeoutPolled /\ ~call.env.grace
    /\ oscalls[Len(oscalls)] = "communicate"
    /\ call.ret.kind = "data"

\* --------------------------------------------------------------------- C24
\* the subprocess calls that return at once or within a fixed time
BoundedCalls ==
    {"poll:None", "poll:exited", "terminate", "kill", "communicate(timeout=2)"}

\* C24 as stated: every subprocess call a poll makes is a status check that
\* returns at once, a signal, or a wait with a fixed timeout; no poll makes a wait
\* without one.
C24_AsStated ==
    call.op = "readAsyncResponse" =>
        \A i \in 1..Len(oscalls) : oscalls[i] \in BoundedCalls

\* --------------------------------------------------------------------- C25
\* the last call was a poll in which the subprocess call `step` raised
StepFailed(step) ==
    /\ call.op = "readAsyncResponse" /\ call.env # NoEnv
    /\ "fail" \in DOMAIN call.env /\ call.env.fail = step

\* C25 as stated: whichever termination step fails in the timeout escalation, the
\* poll raises nothing: it has enqueued one record per active client and returns
\* the first one.
C25_AsStated ==
    (TimeoutPolled /\ \E step \in TerminationSteps : StepFailed(step))
        => /\ call.ret.kind = "data"
           /\ Len(async_queue) = Len(async_ids) - 1

\* --------------------------------------------------------------------- C26
\* C26 as stated: after a poll that found the process exited, or that ran the
\* timeout escalation, no process handle is owned, whether the poll returned or
\* raised; so the start that follows passes the 'already in progress' guard.
C26_AsStated ==
    (ReapPolled \/ TimeoutPolled) => (proc = Nil /\ StartAccepts)

\* --------------------------------------------------------------------- C27
\* C27: the step that spawns the process sets the deadline to the time of the
\* launch plus the larger of 10 and 4 * sim_time, so at least 10 s and at least
\* 4 * sim_time after it; afterwards the deadline changes only in a start (no
\* poll, and nothing else, changes it); and a poll runs the timeout escalation
\* only at a time strictly greater than the deadline.
C27_Deadline ==
    [][/\ (proc = Nil /\ proc' # Nil) =>
             /\ deadline' # Nil
             /\ deadline'[1] = now' + (IF 4 * sim_time > 10 THEN 4 * sim_time ELSE 10)
             /\ deadline'[1] >= now' + 10
             /\ deadline'[1] >= now' + 4 * sim_time
       /\ (deadline' # deadline) => call'.op = "sendAsyncRequest"
       /\ (call'.op = "readAsyncResponse") => deadline' = deadline
       /\ TimeoutPolled' => (deadline' # Nil /\ call'.env.at > deadline'[1])]_vars

\* a launch with 4 * sim_time above the floor, in a later round, and the poll
\* that timed it out one clock step past its deadline
C27_Witness ==
    /\ TimeoutPolled
    /\ sim_time = 3 /\ deadline # Nil /\ deadline[1] > 4 * sim_time
    /\ call.env.at > deadline[1]

\* --------------------------------------------------------------------- C28
\* the last call was a poll that took the session out of Running: it reaped the
\* exited process or ran the timeout escalation
LeftRunning == ReapPolled \/ TimeoutPolled

\* the number of records that poll had to build: one per active client on the
\* timeout path, one per reported local index in range on a normal exit
RecordsDue ==
    IF TimeoutPolled THEN Len(async_ids)
    ELSE Cardinality(Reported(_parse_last_json(call.env.out))
                        \cap 0..(Len(async_ids) - 1))

\* C28 as stated: a poll that leaves Running delivers neither a data record nor
\* the end sentinel in the same call.
C28_AsStated ==
    LeftRunning => call.ret.kind \notin {"data", "end"}

\* a subprocess call of the last poll raised and was not swallowed
CallRaised == \E step \in {"wait", "capture"} : StepFailed(step)

\* C28 amended: a poll that leaves Running builds the queue and falls through to
\* delivery in the same call: it returns the first record and leaves the others
\* queued, or returns 'end' when there is no record to build; it raises, with
\* nothing queued, exactly when a normal exit left no decodable summary or a
\* subprocess call raised. It never returns the in-progress marker and delivers
\* no more than one record.
C28_FallThrough ==
    LeftRunning =>
        IF CallRaised \/ (ReapPolled /\ ~_parse_last_json(call.env.out).ok)
        THEN call.ret.kind = "raise" /\ async_queue = << >>
        ELSE IF RecordsDue = 0
        THEN call.ret = RetEnd /\ async_queue = << >>
        ELSE /\ call.ret.kind = "data"
             /\ Len(async_queue) = RecordsDue - 1

\* the poll that reaped the process returned the first of two records
C28_Witness ==
    /\ ReapPolled /\ call.ret.kind = "data"
    /\ RecordsDue = 2 /\ Len(async_queue) = 1
    /\ KeyOf(call.ret.val) = async_ids[1]

\* --------------------------------------------------------------------- C29
\* C29: the poll that reaps a normally exited process and decodes its summary
\* builds a record for exactly the active clients whose local index the summary
\* reports, in order, and none for the others; when the summary reports no local
\* index in range, that same poll returns 'end' with nothing queued.
C29_SkipUnreported ==
    (ReapPolled /\ _parse_last_json(call.env.out).ok) =>
        LET reported == Reported(_parse_last_json(call.env.out))
        IN  /\ call.ret.kind \in {"data", "end"}
            /\ KeysOf(BuiltRecords) = Pick(async_ids, reported, 1)
            /\ (reported \cap 0..(Len(async_ids) - 1) = {})
                  <=> (call.ret = RetEnd /\ async_queue = << >>)

\* a summary with entries, none of them for a local index in range: 'end' at once
C29_Witness ==
    /\ ReapPolled /\ call.ret = RetEnd
    /\ EntriesOf(_parse_last_json(call.env.out)) # << >>
    /\ Len(async_ids) = 2

\* --------------------------------------------------------------------- C30
\* C30: a poll that returns the in-progress marker leaves the process handle, the
\* recorded ActiveSet, the delivery queue and the deadline as they were.
\* (A step that ends with an in-progress poll as the last call is that poll, or a
\* step of the environment after it: the clock, which leaves these four alone
\* too, or the exit of the process, which is excluded.)
C30_InProgressFrame ==
    [][(call'.op = "readAsyncResponse" /\ call'.ret = RetInProgress /\ ~ProcExit)
          => (/\ proc' = proc /\ async_ids' = async_ids
              /\ async_queue' = async_queue /\ deadline' = deadline)]_vars

\* an in-progress poll made after the clock has advanced, the session as launched
C30_Witness ==
    /\ call.op = "readAsyncResponse" /\ call.ret = RetInProgress
    /\ now > 0 /\ deadline # Nil /\ now < deadline[1]
    /\ proc # Nil /\ proc[1].alive
    /\ async_ids = sess.ids /\ Len(async_ids) = 2 /\ async_queue = << >>

\* --------------------------------------------------------------------- C31
\* C31: a call of sendRequest, whatever its outcome (empty mapping, mapping,
\* error), leaves the process handle, the recorded ActiveSet, the delivery queue
\* and the deadline of the asynchronous session as they were, at whatever point of
\* the session it is made. (A step that leaves sendRequest as the last call is that
\* call, or a step of the environment after it: the clock, which leaves the four
\* alone too, or the exit of the process, which is excluded.)
C31_SyncFrame ==
    [][(call'.op = "sendRequest" /\ ~ProcExit)
          => (/\ proc' = proc /\ async_ids' = async_ids
              /\ async_queue' = async_queue /\ deadline' = deadline)]_vars

\* a synchronous run that returned a mapping while a record of the asynchronous
\* session was still queued
C31_Witness ==
    /\ call.op = "sendRequest" /\ call.ret.kind = "map" /\ call.ret.val # << >>
    /\ async_queue # << >>
    /\ sess.path = "normal" /\ Len(sess.delivered) = 1

\* --------------------------------------------------------------------- C32
\* the last accepted start returned normally (it launched the process; Popen did
\* not fail) and its process has been reaped since
RoundReaped == sess.path \in {"normal", "timeout"}

\* C32: every data record a poll returns, and every record still queued, is keyed
\* by a logical id of the ActiveSet of the most recent successful start: records
\* exist only for a round whose start succeeded and whose process was reaped, their
\* keys are ids that start recorded, and right after a successful start the queue
\* is empty, nothing has been delivered and the recorded ActiveSet is the one that
\* start computed.
C32_KeyedByLastStart ==
    /\ async_ids = sess.ids
    /\ \A i \in 1..Len(sess.delivered) : KeyOf(sess.delivered[i]) \in Range(sess.ids)
    /\ \A i \in 1..Len(async_queue) : KeyOf(async_queue[i]) \in Range(sess.ids)
    /\ (sess.delivered # << >> \/ async_queue # << >>) => RoundReaped
    /\ (call.op = "readAsyncResponse" /\ call.ret.kind = "data")
          => /\ sess.delivered # << >>
             /\ call.ret.val = sess.delivered[Len(sess.delivered)]
    /\ (call.op = "sendAsyncRequest" /\ call.ret = RetNone)
          => /\ async_queue = << >> /\ sess.delivered = << >>
             /\ async_ids = call.ids

\* a poll delivers the second record of a round that was started after an earlier
\* round (its deadline is later than that of any start made at time 0), keyed by
\* the second id that start recorded
C32_Witness ==
    /\ call.op = "readAsyncResponse" /\ call.ret.kind = "data"
    /\ deadline # Nil /\ deadline[1] > NewDeadline(0, sim_time)
    /\ Len(sess.delivered) = 2
    /\ KeyOf(call.ret.val) = sess.ids[2]

\* --------------------------------------------------------------------- C33
\* C33: in every state between calls, an owned process handle comes with an empty
\* delivery queue and a deadline; the queue becomes non-empty only in a poll that
\* ends with no handle owned; and a handle is created only by a start, together
\* with a deadline. Subprocess calls that raise are included: a capture that
\* fails on the normal path leaves the handle owned and the queue empty.
C33_OwnedShape ==
    /\ [](proc # Nil => (async_queue = << >> /\ deadline # Nil))
    /\ [][/\ (async_queue' # << >> /\ async_queue' # async_queue)
                => (call'.op = "readAsyncResponse" /\ proc' = Nil)
          /\ (proc = Nil /\ proc' # Nil)
                => (call'.op = "sendAsyncRequest" /\ deadline' # Nil
                    /\ async_queue' = << >>)]_vars

\* the handle is still owned after a poll that found the process exited and
\* failed to capture its output, in a round started after an earlier one: the
\* queue is empty and the deadline set
C33_Witness ==
    /\ proc # Nil /\ ~proc[1].alive
    /\ ReapPolled /\ StepFailed("capture")
    /\ async_queue = << >> /\ deadline # Nil
    /\ deadline[1] > NewDeadline(0, sim_time)

\* --------------------------------------------------------------------- C34
\* C34: a poll made when the process has already exited (a step that leaves a
\* poll as the last call without advancing the clock) takes the normal path,
\* whether or not the deadline has passed: it checks the status and captures the
\* output without terminate or kill, releases the handle, raises exactly when
\* the output holds no decodable summary, and otherwise builds one record per
\* reported client and none for the others. The timeout escalation is run only
\* by a poll that found the process alive at a time after the deadline.
C34_ExitedIsNormal ==
    [][/\ (proc # Nil /\ ~proc[1].alive /\ call'.op = "readAsyncResponse" /\ now' = now)
             => /\ ReapPolled' /\ ~TimeoutPolled'
                /\ oscalls' = <<"poll:exited", "poll:exited", "communicate">>
                /\ proc' = Nil /\ sess'.path = "normal"
                /\ (call'.ret.kind = "raise") = ~_parse_last_json(call'.env.out).ok
                /\ call'.ret.kind # "raise" => Len(BuiltRecords') = RecordsDue'
       /\ (TimeoutPolled' /\ proc' # proc)
             => /\ proc # Nil /\ proc[1].alive
                /\ DeadlinePassed(now, deadline)
                /\ Len(BuiltRecords') = Len(async_ids)]_vars

\* the process exited, was polled only after its deadline, and the poll reaped
\* it and skipped a client the summary does not report
C34_Witness ==
    /\ ReapPolled /\ ~TimeoutPolled
    /\ deadline # Nil /\ now > deadline[1]
    /\ call.ret.kind = "data"
    /\ Len(BuiltRecords) < Len(async_ids)

\* --------------------------------------------------------------------- C35
\* a synchronous run returned a mapping (so it exited with status 0) for the
\* ActiveSet of distinct ids and the output of the asynchronous round that
\* completed normally with status 0 and has been drained to 'end'
SameRunBothWays ==
    /\ SyncReturnedMap
    /\ sess.path = "normal" /\ sess.rc = Some(0)
    /\ sess.ended /\ async_queue = << >> /\ proc = Nil
    /\ call.ids = sess.ids
    /\ Cardinality(Range(sess.ids)) = Len(sess.ids)
    /\ sess.parsed = Some(_parse_last_json(call.env.out))

\* C35: for the same ActiveSet of distinct ids and the same output of a run that
\* completed normally (exit status 0), the keys of the sendRequest mapping are
\* exactly the ids the polls delivered, each delivered once, and for each id the
\* roundTime of the mapping is the endTime of the record and the throughputs are
\* equal.
C35_SyncAsyncAgree ==
    SameRunBothWays =>
        /\ DOMAIN call.ret.val = Range(KeysOf(sess.delivered))
        /\ Len(sess.delivered) = Cardinality(DOMAIN call.ret.val)
        /\ \A i \in 1..Len(sess.delivered) :
              LET k == KeyOf(sess.delivered[i])
                  rec == sess.delivered[i][k]
              IN  /\ call.ret.val[k].roundTime = rec.endTime
                  /\ call.ret.val[k].throughput = rec.throughput

\* both ways gave the two clients of <<2, 0>> their metrics
C35_Witness ==
    /\ SameRunBothWays
    /\ call.ids = <<2, 0>>
    /\ Len(sess.delivered) = 2

\* --------------------------------------------------------------------- C36
\* the last call was a start rejected with the 'already in progress' error
StartWasRejected ==
    /\ call.op = "sendAsyncRequest"
    /\ call.ret = Raise("RuntimeError: already in progress")

\* C36: a start rejected with the 'already in progress' error changes nothing: it
\* is rejected only while a process is owned, it leaves the handle, the recorded
\* ActiveSet, the delivery queue, the deadline and the history of the running
\* round as they were, and it spawns no process; and the poll that follows it and
\* ends the round builds the records of the round's own ActiveSet: the ids whose
\* local index the output reports on a normal exit, every id on a timeout. (A
\* step that leaves the rejected start as the last call is that call, or a step of
\* the environment after it: the clock, which leaves these alone too, or the exit
\* of the process, excluded.)
C36_RejectedFrame ==
    [][/\ (StartWasRejected' /\ ~ProcExit)
          => /\ proc # Nil /\ proc' = proc
             /\ async_ids' = async_ids /\ async_queue' = async_queue
             /\ deadline' = deadline /\ sess' = sess
             /\ oscalls' = << >>
       /\ (StartWasRejected /\ ReapPolled' /\ call'.ret.kind # "raise")
          => KeysOf(BuiltRecords')
                = Pick(async_ids, Reported(_parse_last_json(call'.env.out)), 1)
       /\ (StartWasRejected /\ TimeoutPolled')
          => KeysOf(BuiltRecords') = async_ids]_vars

\* a process owned and running when a start was rejected
C36_Witness ==
    /\ StartWasRejected
    /\ proc # Nil /\ proc[1].alive
    /\ call.arg = <<2, 0>> /\ async_ids = <<0, 1>>
    /\ now > 0

====
